---- MODULE Spec2Model ----
(***************************************************************************)
(* VocalDocs: a document is uploaded, rasterized to page images            *)
(* (codebuild_artifacts), the page images are turned into text             *)
(* (image_converter) and the text into speech (polly_invoker).  The stages *)
(* are independent Lambda handlers woken by a DynamoDB stream record, an   *)
(* SNS message and an S3 object-created event; they coordinate through the *)
(* TaskStatus attribute of the task's DynamoDB item.                       *)
(*                                                                         *)
(* Strings whose content matters (S3 keys, texts) are sequences of         *)
(* character codes, so that Python's str comparison, str.split and         *)
(* " ".join are computed as Python computes them.                          *)
(***************************************************************************)
EXTENDS Integers, Sequences, FiniteSets, TLC

VARIABLES
    table,      \* DynamoDB table: reference_key -> item, or NoItem
    uploads,    \* S3: the file names put under upload/<ref>/, per ref
    up,         \* the upload handler's response for the ref, or "none"
    clock,      \* datetime.now(timezone.utc) as upload reads it: the seconds
                \* since the epoch and the microseconds within the second
    images,     \* S3: page numbers n for which images/<ref>/page_<n>.png exists
    textObj,    \* S3: body of download/<ref>/formatted_output.txt, or NoObj
    chunkOut,   \* S3: names <<i, task id>> of the Polly output objects that exist
    manifest,   \* S3: body of download/<ref>/combined_audio_info.txt, or NoAudio
    audioMp3,   \* S3: body of download/<ref>/Audio.mp3, or NoAudio
    polly,      \* Polly: the synthesis tasks submitted for the ref, in order
    maxChars,   \* the module global MAX_CHARS of polly_invoker
    stream,     \* DynamoDB stream records (INSERT) not yet delivered, per ref
    sns,        \* SNS hand-off messages not yet delivered, per ref
    s3ev,       \* S3 object-created events for the text artifact, per ref
    ras,        \* rasterize handler invocation, per ref
    ext,        \* extract handler invocation, per ref
    syn,        \* synthesize handler invocation, per ref
    wlog,       \* history: every status write a stage issued <<ref, stage, status>>
    wt,         \* wait_for_polly_task: the frame of one call
    job,        \* Polly: the synthesis task that call waits for
    bld,        \* codebuild_invoker: the frame of one invocation of the handler
    builds,     \* CodeBuild: the status of each build started, by build id
    dbFault,    \* history: an update_item for the ref has failed, per ref
    stText,     \* split_text harness: the input text
    stLimit,    \* split_text harness: the limit (MAX_CHARS in the code)
    stChunks,   \* split_text harness: the returned chunks
    stDone,     \* split_text harness: split_text has returned
    rn          \* rename_to_audio_mp3 harness: the call's frame and the two objects

vars == <<table, clock, images, textObj, chunkOut, manifest, audioMp3, polly, maxChars,
          stream, sns, s3ev, ras, ext, syn, wlog, dbFault,
          stText, stLimit, stChunks, stDone, wt, job, bld, builds,
          uploads, up, rn>>

waitVars == <<wt, job>>
buildVars == <<bld, builds>>

uploadVars == <<uploads, up>>

pipeVars == <<table, clock, images, textObj, chunkOut, manifest, audioMp3, polly,
              maxChars, stream, sns, s3ev, ras, ext, syn, wlog, dbFault, uploadVars>>

renameVars == <<rn>>

splitVars == <<stText, stLimit, stChunks, stDone>>

----------------------------------------------------------------------------
(* Bounds *)

MaxPages == 3
MaxTextLen == 6
MaxLimit == 3
MaxSynthLen == 5
MaxLatency == 1
MaxUriLen == 2
MaxSec == 3

(* Program constants *)

MAX_CHARS == 190000
WeekSeconds == 604800
MicrosPerSecond == 1000000
WaitDeadline == 300
PollInterval == 5
max_attempts == 3

Refs == {"r1"}

\* the keys of the table: the tasks the stages run for, and another user's task
OtherTask == "r0"
Tasks == Refs \cup {OtherTask}
StartPages == {1, 9}
Languages == {"English", "french"}

----------------------------------------------------------------------------
(* Status strings *)

UploadCompleted == "Upload-Completed"
RasterizeOK == "pdf-to-images conversion is completed"
RasterizeFailed == "pdf-to-images conversion is failed"
ExtractOK == "images-to-text conversion is completed"
ExtractFailed == "images-to-text conversion is failed"
ExtractNoImages == "pdf-to-images is failed"
VoiceIsReady == "Voice-is-Ready"
SynthFailed == "failed"

NoItem ==
    [reference_key |-> "none", FileName |-> "none", Language |-> "none",
     StartPage |-> 0, EndPage |-> 0, S3Path |-> <<>>,
     UploadDateTime |-> [sec |-> 0, micro |-> 0],
     TaskStatus |-> "none", Username |-> "none", ExpiresAt |-> 0]
NoObj == <<-1>>

Epoch == [sec |-> 0, micro |-> 0]

\* int(expiration_time.timestamp()) without the week added
ExpirationNow(now) == now.sec

\* current_datetime + timedelta(weeks=1)
PlusOneWeek(now) == [now EXCEPT !.sec = @ + WeekSeconds]

\* int(expiration_time.timestamp()): the microseconds are cut off
ExpirationTimestamp(now) == PlusOneWeek(now).sec

\* the item put_item writes for the task r
NewItem(r, file, language, start, end, user, now) ==
    [reference_key |-> r, FileName |-> file, Language |-> language,
     StartPage |-> start, EndPage |-> end, S3Path |-> <<"upload", r, file>>,
     UploadDateTime |-> now, TaskStatus |-> UploadCompleted, Username |-> user,
     ExpiresAt |-> ExpirationTimestamp(now)]

\* another user's task, submitted and finished earlier
OtherItem ==
    [NewItem(OtherTask, "other.pdf", "arabic", 1, 1, "other", Epoch)
        EXCEPT !.TaskStatus = VoiceIsReady]

----------------------------------------------------------------------------
(* Strings as sequences of character codes *)

Whitespace == {9, 10, 11, 12, 13, 28, 29, 30, 31, 32}
Space == <<32>>
BlankLine == <<10, 10>>

RECURSIVE Digits(_)
Digits(n) == IF n < 10 THEN <<48 + n>> ELSE Digits(n \div 10) \o <<48 + (n % 10)>>

RefChars(r) == IF r = "r1" THEN <<114, 49>> ELSE <<114, 50>>

\* f"images/{reference_key}/page_{i+start_page}.png"
ImageKey(r, n) ==
    <<105, 109, 97, 103, 101, 115, 47>> \o RefChars(r) \o <<47>>
        \o <<112, 97, 103, 101, 95>> \o Digits(n) \o <<46, 112, 110, 103>>

\* Python's str "<": lexicographic on code points, a proper prefix is smaller
RECURSIVE StrLess(_, _)
StrLess(a, b) ==
    IF b = <<>> THEN FALSE
    ELSE IF a = <<>> THEN TRUE
    ELSE IF Head(a) # Head(b) THEN Head(a) < Head(b)
    ELSE StrLess(Tail(a), Tail(b))

\* sorted(all_objects, key=lambda x: x["Key"]) over the objects of one prefix
RECURSIVE SortedByKey(_, _)
SortedByKey(r, pages) ==
    IF pages = {} THEN <<>>
    ELSE LET m == CHOOSE x \in pages :
                    \A y \in pages \ {x} : StrLess(ImageKey(r, x), ImageKey(r, y))
         IN <<m>> \o SortedByKey(r, pages \ {m})

\* the text Bedrock extracts from the image of page n: one letter naming the page
PageText(n) == <<96 + n>>

----------------------------------------------------------------------------
(* split_text *)

\* str.split(): the maximal runs of non-whitespace characters
RECURSIVE SplitAcc(_, _, _)
SplitAcc(t, cur, acc) ==
    IF t = <<>> THEN (IF cur = <<>> THEN acc ELSE Append(acc, cur))
    ELSE IF Head(t) \in Whitespace
         THEN SplitAcc(Tail(t), <<>>, IF cur = <<>> THEN acc ELSE Append(acc, cur))
         ELSE SplitAcc(Tail(t), Append(cur, Head(t)), acc)

Split(t) == SplitAcc(t, <<>>, <<>>)

\* " ".join(words)
RECURSIVE JoinSp(_)
JoinSp(ws) ==
    IF ws = <<>> THEN <<>>
    ELSE IF Len(ws) = 1 THEN ws[1]
    ELSE ws[1] \o Space \o JoinSp(Tail(ws))

\* a split_text loop that drops the word that overflows the chunk
RECURSIVE SplitLoopDropping(_, _, _, _)
SplitLoopDropping(words, current, chunks, limit) ==
    IF words = <<>>
    THEN IF current # <<>> THEN Append(chunks, JoinSp(current)) ELSE chunks
    ELSE IF Len(JoinSp(Append(current, Head(words)))) <= limit
         THEN SplitLoopDropping(Tail(words), Append(current, Head(words)), chunks, limit)
         ELSE SplitLoopDropping(Tail(words), <<>>, Append(chunks, JoinSp(current)), limit)

\* a split_text loop that cuts every chunk at the limit
CutAt(chunk, limit) == IF Len(chunk) > limit THEN SubSeq(chunk, 1, limit) ELSE chunk

RECURSIVE SplitLoopCutting(_, _, _, _)
SplitLoopCutting(words, current, chunks, limit) ==
    IF words = <<>>
    THEN IF current # <<>>
         THEN Append(chunks, CutAt(JoinSp(current), limit)) ELSE chunks
    ELSE IF Len(JoinSp(Append(current, Head(words)))) <= limit
         THEN SplitLoopCutting(Tail(words), Append(current, Head(words)), chunks, limit)
         ELSE SplitLoopCutting(Tail(words), <<Head(words)>>,
                               Append(chunks, CutAt(JoinSp(current), limit)), limit)

\* a split_text loop that closes a chunk one character early
RECURSIVE SplitLoopEarly(_, _, _, _)
SplitLoopEarly(words, current, chunks, limit) ==
    IF words = <<>>
    THEN IF current # <<>> THEN Append(chunks, JoinSp(current)) ELSE chunks
    ELSE IF Len(JoinSp(Append(current, Head(words)))) < limit
         THEN SplitLoopEarly(Tail(words), Append(current, Head(words)), chunks, limit)
         ELSE SplitLoopEarly(Tail(words), <<Head(words)>>,
                             Append(chunks, JoinSp(current)), limit)

\* the for loop and the final append of split_text
RECURSIVE SplitLoop(_, _, _, _)
SplitLoop(words, current, chunks, limit) ==
    IF words = <<>>
    THEN IF current # <<>> THEN Append(chunks, JoinSp(current)) ELSE chunks
    ELSE IF Len(JoinSp(Append(current, Head(words)))) <= limit
         THEN SplitLoop(Tail(words), Append(current, Head(words)), chunks, limit)
         ELSE SplitLoop(Tail(words), <<Head(words)>>,
                        Append(chunks, JoinSp(current)), limit)

\* a split_text that returns one empty chunk for a text without words
SplitTextOneEmpty(text, limit) ==
    IF Split(text) = <<>> THEN <<<<>>>> ELSE SplitLoop(Split(text), <<>>, <<>>, limit)

\* split_text(text), with the module constant MAX_CHARS as the parameter limit
split_text(text, limit) == SplitLoop(Split(text), <<>>, <<>>, limit)

----------------------------------------------------------------------------
(* The DynamoDB item attribute the stages write *)

\* a status write that puts a whole new item under the key
PutStatusItem(tbl, r, status) == [tbl EXCEPT ![r] = [NoItem EXCEPT !.TaskStatus = status]]

\* table.update_item(Key={"reference_key": r}, "SET TaskStatus = :status")
SetStatus(tbl, r, status) == [tbl EXCEPT ![r].TaskStatus = status]

\* str(response["Item"]["Language"]).lower()
Lower(language) == IF language = "English" THEN "english" ELSE language

\* a speech engine table with a voice for every language
AnyLanguage(language) == TRUE

\* get_voice_id / get_language_code raise ValueError for any other language
SupportedLanguage(language) == language \in {"english", "arabic"}

NoAudio == [kind |-> "none", files |-> <<>>]

RasIdle == [pc |-> "idle", ret |-> "none", uploaded |-> <<>>, converted |-> 0,
            published |-> FALSE]
ExtIdle == [pc |-> "idle", ret |-> "none", seen |-> "none", listed |-> <<>>,
            failed |-> {}, stored |-> FALSE]
SynIdle ==
    [pc |-> "idle", ret |-> "none", language |-> "none", chunks |-> <<>>, i |-> 0,
     audio_files |-> <<>>, writes |-> 0, again |-> "none", first |-> NoAudio]

PipeInit ==
    /\ table = [t \in Tasks |-> IF t \in Refs THEN NoItem ELSE OtherItem]
    /\ images = [r \in Refs |-> {}]
    /\ textObj = [r \in Refs |-> NoObj]
    /\ chunkOut = [r \in Refs |-> {}]
    /\ manifest = [r \in Refs |-> NoAudio]
    /\ audioMp3 = [r \in Refs |-> NoAudio]
    /\ polly = [r \in Refs |-> <<>>]
    /\ stream = [r \in Refs |-> 0]
    /\ sns = [r \in Refs |-> 0]
    /\ s3ev = [r \in Refs |-> 0]
    /\ ras = [r \in Refs |-> RasIdle]
    /\ ext = [r \in Refs |-> ExtIdle]
    /\ syn = [r \in Refs |-> SynIdle]
    /\ wlog = {}
    /\ dbFault = [r \in Refs |-> FALSE]
    /\ uploads = [r \in Refs |-> {}]
    /\ up = [r \in Refs |-> "none"]

\* no call of rename_to_audio_mp3 under way
NoRename ==
    [pc |-> "idle", content |-> NoAudio, old |-> NoAudio, src |-> NoAudio,
     dst |-> NoAudio, copied |-> FALSE, deletes |-> 0, raised |-> FALSE,
     copyOk |-> TRUE, delOk |-> TRUE]

RenameIdle == rn = NoRename

SplitIdle ==
    /\ stText = <<>>
    /\ stLimit = 1
    /\ stChunks = <<>>
    /\ stDone = FALSE

\* no call of wait_for_polly_task under way
WaitIdle ==
    /\ wt = [pc |-> "idle", now |-> 0, end_time |-> 0, polls |-> 0, lastPoll |-> -1,
             minGap |-> 0, lastObs |-> "none", terminalPolls |-> 0,
             result |-> "none", value |-> <<>>]
    /\ job = [status |-> "scheduled", uri |-> <<>>]

\* the first line of the handler's frame: nothing started, monitored or returned
BuildFrame ==
    [pc |-> "idle", attempt |-> 0, build_id |-> 0, success |-> FALSE,
     ret |-> "none", body |-> "none", named |-> 0, starts |-> 0, rejected |-> 0,
     rounds |-> <<>>, sleeps |-> 0, project |-> "unread"]

\* no invocation of codebuild_invoker under way
BuildIdle ==
    /\ bld = BuildFrame
    /\ builds = <<>>

Init ==
    /\ PipeInit
    /\ clock = Epoch
    /\ maxChars = MAX_CHARS
    /\ SplitIdle
    /\ WaitIdle
    /\ BuildIdle
    /\ RenameIdle

----------------------------------------------------------------------------
(* upload_execution: the document is stored and the task item is created *)

\* a handler that writes the record whether or not the document was stored
RecordWrittenAnyway(decodeOk, putOk, dbOk) == decodeOk /\ dbOk

\* put_object is reached when the event was read and decoded without an error
DocumentStored(decodeOk, putOk) == decodeOk /\ putOk

\* put_item follows put_object in the one try body: the record is written when
\* nothing before it raised and put_item itself succeeds
RecordWritten(decodeOk, putOk, dbOk) == DocumentStored(decodeOk, putOk) /\ dbOk

\* The handler from the event to its response.  Inputs: the page range and the
\* language of the event; decodeOk whether the event has its fields and the
\* content decodes, putOk whether put_object succeeds, dbOk whether put_item
\* does.  Any exception is answered with statusCode 500.
Upload(r) ==
    /\ table[r] = NoItem
    /\ up[r] = "none"
    /\ \E start \in StartPages, len \in 1..MaxPages, language \in Languages,
          decodeOk \in BOOLEAN, putOk \in BOOLEAN, dbOk \in BOOLEAN :
       LET stored == DocumentStored(decodeOk, putOk)
           written == RecordWritten(decodeOk, putOk, dbOk)
       IN /\ ~decodeOk => putOk
          /\ ~stored => dbOk
          /\ ~written => (start = 1 /\ len = 1 /\ language = "English")
          /\ uploads' = [uploads EXCEPT ![r] = IF stored THEN @ \cup {"doc.pdf"} ELSE @]
          /\ table' = IF written
                      THEN [table EXCEPT ![r] =
                              NewItem(r, "doc.pdf", language, start, start + len - 1,
                                      "user", clock)]
                      ELSE table
          /\ stream' = [stream EXCEPT ![r] = IF written THEN 1 ELSE @]
          /\ up' = [up EXCEPT ![r] = IF written THEN "200" ELSE "500"]
    /\ UNCHANGED <<images, textObj, chunkOut, manifest, audioMp3, polly, maxChars,
                   sns, s3ev, ras, ext, syn, wlog, dbFault>>
    /\ UNCHANGED <<clock, splitVars, waitVars, buildVars, renameVars>>

----------------------------------------------------------------------------
(* codebuild_artifacts: rasterize *)

\* the upload loop: the pages whose put_object succeeded, in loop order
RECURSIVE UploadLoop(_, _, _, _)
UploadLoop(i, n, start, failed) ==
    IF i >= n THEN <<>>
    ELSE (IF (i + start) \in failed THEN <<>> ELSE <<i + start>>)
            \o UploadLoop(i + 1, n, start, failed)

Range(s) == {s[k] : k \in 1..Len(s)}

\* Inputs: fault "event" is an exception raised before reference_key is bound
\* (the except clause then fails on the unbound name), "work" one raised by the
\* download or the conversion; n the number of images convert_from_path returns;
\* failed the pages whose put_object raises; dbOk, snsOk whether update_item and
\* publish succeed (both handlers-side errors are logged and swallowed).
Rasterize(r) ==
    /\ stream[r] > 0
    /\ ras[r].pc = "idle"
    /\ stream' = [stream EXCEPT ![r] = @ - 1]
    /\ \E fault \in {"none", "event", "work"}, n \in 0..MaxPages,
          dbOk \in BOOLEAN, snsOk \in BOOLEAN :
       LET start == table[r].StartPage
           pages == start..(start + n - 1)
       IN \E failed \in SUBSET pages :
          LET uploaded == UploadLoop(0, n, start, failed)
              status == IF fault = "none" THEN RasterizeOK
                        ELSE RasterizeFailed
          IN /\ n <= table[r].EndPage - start + 1
             /\ dbFault' = [dbFault EXCEPT ![r] = @ \/ ~dbOk]
             /\ fault # "none" => (n = 0 /\ snsOk)
             /\ fault = "event" => dbOk
             /\ IF fault = "event"
                THEN /\ ras' = [ras EXCEPT ![r] = [RasIdle EXCEPT !.pc = "done",
                                                           !.ret = "raised"]]
                     /\ UNCHANGED <<table, images, sns, wlog>>
                ELSE /\ images' = [images EXCEPT ![r] = @ \cup Range(uploaded)]
                     /\ table' = IF dbOk THEN SetStatus(table, r, status) ELSE table
                     /\ wlog' = wlog \cup {<<r, "rasterize", status>>}
                     /\ sns' = IF fault = "none" /\ snsOk
                               THEN [sns EXCEPT ![r] = @ + 1] ELSE sns
                     /\ ras' = [ras EXCEPT ![r] =
                                  [pc |-> "done",
                                   ret |-> IF fault = "none" THEN "200" ELSE "500",
                                   uploaded |-> uploaded, converted |-> n,
                                   published |-> fault = "none" /\ snsOk]]
    /\ UNCHANGED <<textObj, chunkOut, manifest, audioMp3, polly, maxChars, s3ev,
                   ext, syn>>
    /\ UNCHANGED <<clock, uploadVars, splitVars, waitVars, buildVars, renameVars>>

----------------------------------------------------------------------------
(* image_converter: extract text *)

\* a per-image loop that stops at the first image whose processing raises
RECURSIVE ExtractLoopAborting(_, _)
ExtractLoopAborting(listed, failed) ==
    IF listed = <<>> THEN <<>>
    ELSE IF Head(listed) \in failed THEN <<>>
    ELSE PageText(Head(listed)) \o BlankLine \o ExtractLoopAborting(Tail(listed), failed)

\* the per-image loop: the text of every image whose get_object and Bedrock call
\* succeed, each followed by "\n\n", in the order of the sorted listing
RECURSIVE ExtractLoop(_, _)
ExtractLoop(listed, failed) ==
    IF listed = <<>> THEN <<>>
    ELSE (IF Head(listed) \in failed THEN <<>> ELSE PageText(Head(listed)) \o BlankLine)
            \o ExtractLoop(Tail(listed), failed)

\* the handler's except clause: update_dynamodb(failed), then re-raise; an error
\* of update_item itself is raised by update_dynamodb as well
ExtractExcept(r, local, dbOk) ==
    /\ table' = IF dbOk THEN SetStatus(table, r, ExtractFailed) ELSE table
    /\ wlog' = wlog \cup {<<r, "extract", ExtractFailed>>}
    /\ ext' = [ext EXCEPT ![r] = [local EXCEPT !.pc = "done", !.ret = "raised"]]

\* From the SNS message to the put of the text artifact.  Inputs: listOk whether
\* the listing succeeds, failed the images whose processing raises, putOk whether
\* put_object succeeds, dbOk / dbOk2 whether the first / second update_item does.
ExtractRun(r) ==
    /\ sns[r] > 0
    /\ ext[r].pc = "idle"
    /\ sns' = [sns EXCEPT ![r] = @ - 1]
    /\ \E listOk \in BOOLEAN, putOk \in BOOLEAN, dbOk \in BOOLEAN, dbOk2 \in BOOLEAN,
          failed \in SUBSET images[r] :
       LET listed == SortedByKey(r, images[r])
           local == [ExtIdle EXCEPT !.seen = table[r].TaskStatus]
           run == [local EXCEPT !.listed = listed, !.failed = failed]
       IN /\ dbFault' = [dbFault EXCEPT ![r] = @ \/ ~dbOk \/ ~dbOk2]
          /\ IF ~listOk
             THEN /\ putOk /\ dbOk2 /\ failed = {}
                  /\ ExtractExcept(r, local, dbOk)
                  /\ UNCHANGED <<textObj, s3ev>>
             ELSE IF images[r] = {}
             THEN /\ putOk /\ (dbOk => dbOk2)
                  /\ IF dbOk
                     THEN /\ table' = SetStatus(table, r, ExtractNoImages)
                          /\ wlog' = wlog \cup {<<r, "extract", ExtractNoImages>>}
                          /\ ext' = [ext EXCEPT ![r] =
                                       [local EXCEPT !.pc = "done", !.ret = "200"]]
                     ELSE /\ table' = IF dbOk2 THEN SetStatus(table, r, ExtractFailed)
                                      ELSE table
                          /\ wlog' = wlog \cup {<<r, "extract", ExtractNoImages>>,
                                                <<r, "extract", ExtractFailed>>}
                          /\ ext' = [ext EXCEPT ![r] =
                                       [local EXCEPT !.pc = "done", !.ret = "raised"]]
                  /\ UNCHANGED <<textObj, s3ev>>
             ELSE IF putOk
             THEN /\ dbOk /\ dbOk2
                  /\ textObj' = [textObj EXCEPT ![r] = ExtractLoop(listed, failed)]
                  /\ s3ev' = [s3ev EXCEPT ![r] = @ + 1]
                  /\ ext' = [ext EXCEPT ![r] =
                               [run EXCEPT !.pc = "stored", !.stored = TRUE]]
                  /\ UNCHANGED <<table, wlog>>
             ELSE /\ dbOk2
                  /\ ExtractExcept(r, run, dbOk)
                  /\ UNCHANGED <<textObj, s3ev>>
    /\ UNCHANGED <<images, chunkOut, manifest, audioMp3, polly, maxChars, stream,
                   ras, syn>>
    /\ UNCHANGED <<clock, uploadVars, splitVars, waitVars, buildVars, renameVars>>

\* The status write that ends the handler after the text artifact is stored
ExtractStatus(r) ==
    /\ ext[r].pc = "stored"
    /\ \E dbOk \in BOOLEAN, dbOk2 \in BOOLEAN :
       LET status == ExtractOK
       IN /\ dbOk => dbOk2
          /\ dbFault' = [dbFault EXCEPT ![r] = @ \/ ~dbOk \/ ~dbOk2]
          /\ IF dbOk
             THEN /\ table' = SetStatus(table, r, status)
                  /\ wlog' = wlog \cup {<<r, "extract", status>>}
                  /\ ext' = [ext EXCEPT ![r].pc = "done", ![r].ret = "200"]
             ELSE /\ table' = IF dbOk2 THEN SetStatus(table, r, ExtractFailed)
                              ELSE table
                  /\ wlog' = wlog \cup {<<r, "extract", status>>,
                                        <<r, "extract", ExtractFailed>>}
                  /\ ext' = [ext EXCEPT ![r].pc = "done", ![r].ret = "raised"]
    /\ UNCHANGED <<images, textObj, chunkOut, manifest, audioMp3, polly, maxChars,
                   stream, sns, s3ev, ras, syn>>
    /\ UNCHANGED <<clock, uploadVars, splitVars, waitVars, buildVars, renameVars>>

----------------------------------------------------------------------------
(* polly_invoker: synthesize speech *)

\* a handler that passes over a fault and goes on with the next chunk
SynthSkip(r, local, dbOk) ==
    /\ syn' = [syn EXCEPT ![r] = [local EXCEPT !.i = @ + 1]]
    /\ UNCHANGED <<table, wlog>>

\* the handler's except clause: update_dynamodb_status(failed), which logs and
\* swallows an error of update_item, then the 500 response.  writes counts the
\* invocation's calls of update_dynamodb_status.
SynthExcept(r, local, dbOk) ==
    /\ table' = IF dbOk THEN SetStatus(table, r, SynthFailed) ELSE table
    /\ wlog' = wlog \cup {<<r, "synthesize", SynthFailed>>}
    /\ syn' = [syn EXCEPT ![r] = [local EXCEPT !.pc = "done", !.ret = "500",
                                               !.writes = @ + 1]]

\* From the S3 event to the list of chunks.  Inputs: readOk whether get_item and
\* get_object succeed, dbOk whether update_item does.
SynthStart(r) ==
    /\ s3ev[r] > 0
    /\ syn[r].pc = "idle"
    /\ s3ev' = [s3ev EXCEPT ![r] = @ - 1]
    /\ \E readOk \in BOOLEAN, dbOk \in BOOLEAN :
       LET local == [SynIdle EXCEPT !.again = syn[r].again, !.first = syn[r].first]
       IN /\ dbFault' = [dbFault EXCEPT ![r] = @ \/ ~dbOk]
          /\ IF readOk /\ table[r].Language # "none" /\ textObj[r] # NoObj
             THEN /\ dbOk
                  /\ syn' = [syn EXCEPT ![r] =
                               [local EXCEPT !.pc = "chunks",
                                             !.language = Lower(table[r].Language),
                                             !.chunks = split_text(textObj[r], maxChars)]]
                  /\ UNCHANGED <<table, wlog>>
             ELSE SynthExcept(r, local, dbOk)
    /\ UNCHANGED <<images, textObj, chunkOut, manifest, audioMp3, polly, maxChars,
                   stream, sns, ras, ext>>
    /\ UNCHANGED <<clock, uploadVars, splitVars, waitVars, buildVars, renameVars>>

\* the body of the output object of a Polly task: the audio of that task
AudioBody(name) == [kind |-> "audio", files |-> <<name>>]

\* "\n".join(audio_files), the body of the manifest
ManifestBody(files) == [kind |-> "manifest", files |-> files]

\* audio_files.append(audio_file) in the order the list is prepended instead
PrependAudio(files, name) == <<name>> \o files

\* audio_files.append(audio_file)
AppendAudio(files, name) == Append(files, name)

\* One round of the chunk loop: start_polly_task, then wait_for_polly_task.
\* Inputs: startOk whether start_speech_synthesis_task is accepted, outcome what
\* the wait ends with, dbOk whether update_item succeeds.  An accepted task gets
\* the next task id; its output object chunk_<i>_.<task id>.mp3 exists once the
\* task has completed.
SynthChunk(r) ==
    /\ syn[r].pc = "chunks"
    /\ syn[r].i < Len(syn[r].chunks)
    /\ \E startOk \in BOOLEAN, outcome \in {"completed", "failed", "timedout"},
          dbOk \in BOOLEAN :
       LET chunk == syn[r].chunks[syn[r].i + 1]
           started == /\ Split(chunk) # <<>>
                      /\ SupportedLanguage(syn[r].language)
                      /\ startOk
           name == <<syn[r].i, Len(polly[r]) + 1>>
       IN /\ ~started => outcome = "completed"
          /\ dbFault' = [dbFault EXCEPT ![r] = @ \/ ~dbOk]
          /\ polly' = IF started
                      THEN [polly EXCEPT ![r] =
                              Append(@, [chunk |-> syn[r].i, text |-> chunk,
                                         status |-> outcome])]
                      ELSE polly
          /\ IF started /\ outcome = "completed"
             THEN /\ dbOk
                  /\ chunkOut' = [chunkOut EXCEPT ![r] = @ \cup {name}]
                  /\ syn' = [syn EXCEPT ![r].i = @ + 1,
                                        ![r].audio_files = AppendAudio(@, name)]
                  /\ UNCHANGED <<table, wlog>>
             ELSE /\ SynthExcept(r, syn[r], dbOk)
                  /\ UNCHANGED chunkOut
    /\ UNCHANGED <<images, textObj, manifest, audioMp3, maxChars, stream, sns, s3ev,
                   ras, ext>>
    /\ UNCHANGED <<clock, uploadVars, splitVars, waitVars, buildVars, renameVars>>

\* a rename that leaves the source object in place
RenameWithoutDelete(srcBody, audio, copyOk, delOk) ==
    IF srcBody = NoAudio \/ ~copyOk
    THEN [audio |-> audio, src |-> srcBody, raised |-> TRUE]
    ELSE [audio |-> srcBody, src |-> srcBody, raised |-> ~delOk]

\* a rename whose except clause logs the error and returns the key
RenameSwallowing(srcBody, audio, copyOk, delOk) ==
    IF srcBody = NoAudio \/ ~copyOk
    THEN [audio |-> audio, src |-> srcBody, raised |-> FALSE]
    ELSE [audio |-> srcBody, src |-> IF delOk THEN NoAudio ELSE srcBody,
          raised |-> FALSE]

\* rename_to_audio_mp3: copy_object of the source to download/<ref>/Audio.mp3,
\* then delete_object of the source; a ClientError of either is re-raised.
\* copy_object of a key that does not exist is a ClientError (NoSuchKey).
\* srcBody is the body under the source key (NoAudio: no such object), audio the
\* body under Audio.mp3; the result is both bodies afterwards.
rename_to_audio_mp3(srcBody, audio, copyOk, delOk) ==
    IF srcBody = NoAudio \/ ~copyOk
    THEN [audio |-> audio, src |-> srcBody, raised |-> TRUE]
    ELSE IF ~delOk
    THEN [audio |-> srcBody, src |-> srcBody, raised |-> TRUE]
    ELSE [audio |-> srcBody, src |-> NoAudio, raised |-> FALSE]

\* After the chunk loop: combine_audio_files (more than one audio file),
\* rename_to_audio_mp3 and the status write.  Inputs: putOk, copyOk, delOk
\* whether put_object, copy_object and delete_object succeed, dbOk whether
\* update_item does.
SynthFinish(r) ==
    /\ syn[r].pc = "chunks"
    /\ syn[r].i = Len(syn[r].chunks)
    /\ \E putOk \in BOOLEAN, copyOk \in BOOLEAN, delOk \in BOOLEAN, dbOk \in BOOLEAN :
       LET files == syn[r].audio_files
           many == Len(files) > 1
           combined == many /\ putOk
           srcBody == IF many THEN ManifestBody(files)
                      ELSE IF files # <<>> /\ files[1] \in chunkOut[r]
                           THEN AudioBody(files[1])
                           ELSE NoAudio
           renamed == files # <<>> /\ (many => putOk)
           res == IF renamed
                  THEN rename_to_audio_mp3(srcBody, audioMp3[r], copyOk, delOk)
                  ELSE [audio |-> audioMp3[r], src |-> srcBody, raised |-> TRUE]
       IN /\ dbFault' = [dbFault EXCEPT ![r] = @ \/ ~dbOk]
          /\ ~many => putOk
          /\ ~renamed => (copyOk /\ delOk)
          /\ (renamed /\ ~copyOk) => delOk
          /\ manifest' = [manifest EXCEPT ![r] = IF combined THEN res.src ELSE @]
          /\ audioMp3' = [audioMp3 EXCEPT ![r] = res.audio]
          /\ chunkOut' = [chunkOut EXCEPT ![r] =
                            IF renamed /\ ~many /\ res.src = NoAudio
                            THEN @ \ {files[1]} ELSE @]
          /\ IF ~res.raised
             THEN /\ table' = IF dbOk THEN SetStatus(table, r, VoiceIsReady) ELSE table
                  /\ wlog' = wlog \cup {<<r, "synthesize", VoiceIsReady>>}
                  /\ syn' = [syn EXCEPT ![r].pc = "done", ![r].ret = "200",
                                        ![r].writes = @ + 1]
             ELSE SynthExcept(r, syn[r], dbOk)
    /\ UNCHANGED <<images, textObj, polly, maxChars, stream, sns, s3ev, ras, ext>>
    /\ UNCHANGED <<clock, uploadVars, splitVars, waitVars, buildVars, renameVars>>

----------------------------------------------------------------------------
(* track_execution: the status query *)

WorkInProgress == "Work-In-Progress"

\* the TaskStatus a request entry carries: 'Voice-is-Ready' for that status,
\* 'Work-In-Progress' for every other
ReportedStatus(status) ==
    IF status = VoiceIsReady THEN VoiceIsReady ELSE WorkInProgress

\* get_user_requests: one entry for every item of the user
get_user_requests(tbl) ==
    [r \in {t \in DOMAIN tbl : tbl[t] # NoItem} |->
        [reference_key |-> r, TaskStatus |-> ReportedStatus(tbl[r].TaskStatus)]]

----------------------------------------------------------------------------
(* The pipeline *)

Next ==
    \E r \in Refs :
        \/ Upload(r)
        \/ Rasterize(r)
        \/ ExtractRun(r)
        \/ ExtractStatus(r)
        \/ SynthStart(r)
        \/ SynthChunk(r)
        \/ SynthFinish(r)

Spec == Init /\ [][Next]_vars

----------------------------------------------------------------------------
(* split_text on its own: every text over Chars up to MaxTextLen characters *)
(* and every limit up to MaxLimit                                          *)

Chars == {32, 10, 97, 98}
Texts == UNION {[1..n -> Chars] : n \in 0..MaxTextLen}

InitSplit ==
    /\ PipeInit
    /\ clock = Epoch
    /\ maxChars = MAX_CHARS
    /\ stText \in Texts
    /\ stLimit \in 1..MaxLimit
    /\ stChunks = <<>>
    /\ stDone = FALSE
    /\ WaitIdle
    /\ BuildIdle
    /\ RenameIdle

ApplySplit ==
    /\ ~stDone
    /\ stChunks' = split_text(stText, stLimit)
    /\ stDone' = TRUE
    /\ UNCHANGED <<stText, stLimit>>
    /\ UNCHANGED <<pipeVars, waitVars, buildVars, renameVars>>

NextSplit == ApplySplit

SpecSplit == InitSplit /\ [][NextSplit]_vars

----------------------------------------------------------------------------
(* upload_execution on its own: the handler run at every instant of Instants *)

Instants ==
    {[sec |-> sec, micro |-> micro] :
        sec \in 0..MaxSec, micro \in {0, 1, MicrosPerSecond - 1}}

InitUpload ==
    /\ PipeInit
    /\ clock \in Instants
    /\ maxChars = MAX_CHARS
    /\ SplitIdle
    /\ WaitIdle
    /\ BuildIdle
    /\ RenameIdle

NextUpload == \E r \in Refs : Upload(r)

SpecUpload == InitUpload /\ [][NextUpload]_vars

----------------------------------------------------------------------------
(* polly_invoker on its own: the handler run on a stored text artifact, for *)
(* every text up to MaxSynthLen characters that extract can have stored and *)
(* every value of the global MAX_CHARS up to MaxLimit, so that texts of     *)
(* several chunks are among the cases.  The task record is there, or is    *)
(* missing (deleted, or expired at ExpiresAt)                               *)

\* what image_converter stores: each page's text followed by a blank line
SynthTexts ==
    {<<>>} \cup {t \o BlankLine : t \in UNION {[1..n -> Chars] : n \in 1..MaxSynthLen}}

InitSynth ==
    /\ \/ \E language \in Languages :
            table = [t \in Tasks |->
                       IF t \in Refs
                       THEN [NewItem(t, "doc.pdf", language, 1, 1, "user", Epoch)
                                EXCEPT !.TaskStatus = ExtractOK]
                       ELSE OtherItem]
       \/ table = [t \in Tasks |-> IF t \in Refs THEN NoItem ELSE OtherItem]
    /\ clock = Epoch
    /\ images = [r \in Refs |-> {}]
    /\ textObj \in [Refs -> SynthTexts]
    /\ chunkOut = [r \in Refs |-> {}]
    /\ manifest = [r \in Refs |-> NoAudio]
    /\ audioMp3 = [r \in Refs |-> NoAudio]
    /\ polly = [r \in Refs |-> <<>>]
    /\ maxChars \in 1..MaxLimit
    /\ stream = [r \in Refs |-> 0]
    /\ sns = [r \in Refs |-> 0]
    /\ s3ev = [r \in Refs |-> 1]
    /\ ras = [r \in Refs |-> RasIdle]
    /\ ext = [r \in Refs |-> ExtIdle]
    /\ syn = [r \in Refs |-> SynIdle]
    /\ wlog = {}
    /\ dbFault = [r \in Refs |-> FALSE]
    /\ uploads = [r \in Refs |-> {"doc.pdf"}]
    /\ up = [r \in Refs |-> "200"]
    /\ SplitIdle
    /\ WaitIdle
    /\ BuildIdle
    /\ RenameIdle

\* rename_to_audio_mp3 run once more with the arguments of the handler's call,
\* after the handler's call succeeded.  Inputs: copyOk, delOk as in SynthFinish.
\* again records how the second run ended: "ok", "raised" (an error although
\* S3 accepted every call it could serve) or "faulted" (an S3 fault).
RenameAgain(r) ==
    /\ syn[r].pc = "done"
    /\ syn[r].ret = "200"
    /\ syn[r].again = "none"
    /\ \E copyOk \in BOOLEAN, delOk \in BOOLEAN :
       LET files == syn[r].audio_files
           many == Len(files) > 1
           srcBody == IF many THEN manifest[r]
                      ELSE IF files[1] \in chunkOut[r] THEN AudioBody(files[1])
                           ELSE NoAudio
           res == rename_to_audio_mp3(srcBody, audioMp3[r], copyOk, delOk)
       IN /\ audioMp3' = [audioMp3 EXCEPT ![r] = res.audio]
          /\ manifest' = [manifest EXCEPT ![r] = IF many THEN res.src ELSE @]
          /\ chunkOut' = [chunkOut EXCEPT ![r] =
                            IF ~many /\ res.src = NoAudio THEN @ \ {files[1]} ELSE @]
          /\ syn' = [syn EXCEPT ![r].again =
                            IF ~res.raised THEN "ok"
                            ELSE IF copyOk /\ delOk THEN "raised" ELSE "faulted",
                                ![r].first = audioMp3[r]]
    /\ UNCHANGED <<table, images, textObj, polly, maxChars, stream, sns, s3ev, ras,
                   ext, wlog, dbFault>>
    /\ UNCHANGED <<clock, uploadVars, splitVars, waitVars, buildVars, renameVars>>

NextSynth ==
    \E r \in Refs :
        \/ SynthStart(r)
        \/ SynthChunk(r)
        \/ SynthFinish(r)
        \/ RenameAgain(r)

SpecSynth == InitSynth /\ [][NextSynth]_vars

----------------------------------------------------------------------------
(* polly_invoker with its trigger delivered twice: S3 event notifications  *)
(* are delivered at least once, so the handler can run a second time for   *)
(* the same text artifact after its first invocation has returned          *)

\* The second delivery of the S3 event.  again marks the task as redelivered
\* and first keeps the body Audio.mp3 had when the first invocation returned.
Redeliver(r) ==
    /\ syn[r].pc = "done"
    /\ syn[r].again = "none"
    /\ s3ev' = [s3ev EXCEPT ![r] = @ + 1]
    /\ syn' = [syn EXCEPT ![r] = [SynIdle EXCEPT !.again = "redelivered",
                                                !.first = audioMp3[r]]]
    /\ UNCHANGED <<table, images, textObj, chunkOut, manifest, audioMp3, polly,
                   maxChars, stream, sns, ras, ext, wlog, dbFault>>
    /\ UNCHANGED <<clock, uploadVars, splitVars, waitVars, buildVars, renameVars>>

NextDup ==
    \E r \in Refs :
        \/ SynthStart(r)
        \/ SynthChunk(r)
        \/ SynthFinish(r)
        \/ Redeliver(r)

SpecDup == InitSynth /\ [][NextDup]_vars

----------------------------------------------------------------------------
(* rename_to_audio_mp3 on its own, one S3 request at a time: the call with  *)
(* every body under the source key (a chunk's audio, a manifest, or no     *)
(* object) and under Audio.mp3 (none, or the audio of an earlier run)      *)

AudioNames == {<<c, t>> : c \in 0..(MaxLimit - 1), t \in 1..MaxLimit}

RenameSources ==
    {NoAudio} \cup {AudioBody(n) : n \in AudioNames}
              \cup {ManifestBody(<<n, m>>) : n \in AudioNames, m \in AudioNames}

RenameTargets == {NoAudio} \cup {AudioBody(n) : n \in AudioNames}

InitRename ==
    /\ PipeInit
    /\ clock = Epoch
    /\ maxChars = MAX_CHARS
    /\ SplitIdle
    /\ WaitIdle
    /\ BuildIdle
    /\ \E content \in RenameSources, old \in RenameTargets :
          rn = [NoRename EXCEPT !.pc = "called", !.content = content,
                                !.old = old, !.src = content, !.dst = old]

\* s3.copy_object: the body under the destination key afterwards, and whether
\* a ClientError was raised (the source key does not exist, or S3 fails)
copy_object(srcBody, dstBody, copyOk) ==
    IF srcBody = NoAudio \/ ~copyOk
    THEN [dst |-> dstBody, raised |-> TRUE]
    ELSE [dst |-> srcBody, raised |-> FALSE]

\* a try body that goes on to the delete whatever the copy did
DeleteAlways(copyRaised) == TRUE

\* the delete follows the copy inside one try: it is reached only when the
\* copy did not raise
DeleteReached(copyRaised) == ~copyRaised

RenameCopy ==
    /\ rn.pc = "called"
    /\ \E copyOk \in BOOLEAN :
       LET res == copy_object(rn.src, rn.dst, copyOk)
       IN rn' = [rn EXCEPT !.dst = res.dst,
                           !.copied = ~res.raised,
                           !.raised = res.raised,
                           !.copyOk = copyOk,
                           !.pc = IF DeleteReached(res.raised) THEN "copied"
                                  ELSE "done"]
    /\ UNCHANGED <<pipeVars, splitVars, waitVars, buildVars>>

\* s3.delete_object of the source key; its ClientError is re-raised
RenameDelete ==
    /\ rn.pc = "copied"
    /\ \E delOk \in BOOLEAN :
       rn' = [rn EXCEPT !.src = IF delOk THEN NoAudio ELSE @,
                        !.deletes = @ + 1,
                        !.raised = @ \/ ~delOk,
                        !.delOk = delOk,
                        !.pc = "done"]
    /\ UNCHANGED <<pipeVars, splitVars, waitVars, buildVars>>

NextRename == RenameCopy \/ RenameDelete

SpecRename == InitRename /\ [][NextRename]_vars

\* the requests taken one at a time end as the call taken as a whole does
RenameStepsAgree ==
    rn.pc = "done" =>
        [audio |-> rn.dst, src |-> rn.src, raised |-> rn.raised]
            = rename_to_audio_mp3(rn.content, rn.old, rn.copyOk, rn.delOk)

----------------------------------------------------------------------------
(* wait_for_polly_task on its own: one call, the Polly task it polls and   *)
(* the clock, in seconds since the call began.  A round of the loop takes   *)
(* up to MaxLatency seconds longer than the sleep it asks for               *)

Slash == 47
Uris == UNION {[1..n -> {Slash, 97}] : n \in 1..MaxUriLen}

\* the whole URI where its last segment is asked for
WholeUri(s) == s

\* OutputUri.split("/")[-1]: what follows the last "/"
RECURSIVE LastSegment(_)
LastSegment(s) ==
    IF s = <<>> \/ s[Len(s)] = Slash THEN <<>>
    ELSE Append(LastSegment(SubSeq(s, 1, Len(s) - 1)), s[Len(s)])

InitWait ==
    /\ PipeInit
    /\ clock = Epoch
    /\ maxChars = MAX_CHARS
    /\ SplitIdle
    /\ BuildIdle
    /\ RenameIdle
    /\ wt = [pc |-> "test", now |-> 0, end_time |-> WaitDeadline, polls |-> 0,
             lastPoll |-> -1, minGap |-> WaitDeadline, lastObs |-> "none",
             terminalPolls |-> 0, result |-> "none", value |-> <<>>]
    /\ \E uri \in Uris : job = [status |-> "scheduled", uri |-> uri]

\* Polly works on the task: scheduled, inProgress, then completed or failed
JobProgress ==
    /\ \/ job.status = "scheduled" /\ job' = [job EXCEPT !.status = "inProgress"]
       \/ job.status = "inProgress" /\ job' = [job EXCEPT !.status = "completed"]
       \/ job.status \in {"scheduled", "inProgress"}
          /\ job' = [job EXCEPT !.status = "failed"]
    /\ UNCHANGED wt
    /\ UNCHANGED <<pipeVars, splitVars, buildVars, renameVars>>

\* What a poll at time wt.now does to the frame.  polls, lastPoll, minGap (the
\* least time between two polls), lastObs and terminalPolls record the polls.
Polled ==
    LET status == job.status
        terminal == status \in {"completed", "failed"}
        gap == wt.now - wt.lastPoll
    IN [wt EXCEPT !.polls = @ + 1,
                  !.lastPoll = wt.now,
                  !.minGap = IF wt.polls > 0 /\ gap < @ THEN gap ELSE @,
                  !.lastObs = status,
                  !.terminalPolls = @ + (IF terminal THEN 1 ELSE 0),
                  !.pc = IF terminal THEN "done" ELSE "sleep",
                  !.result = IF status = "completed" THEN "returned"
                             ELSE IF status = "failed" THEN "failed" ELSE "none",
                  !.value = IF status = "completed" THEN LastSegment(job.uri)
                            ELSE <<>>]

\* the loop test with <= for <
WaitTestLate ==
    /\ wt.pc = "test"
    /\ wt' = IF wt.now <= wt.end_time THEN Polled
             ELSE [wt EXCEPT !.pc = "done", !.result = "timedout"]
    /\ UNCHANGED job
    /\ UNCHANGED <<pipeVars, splitVars, buildVars, renameVars>>

\* while time.time() < end_time: get_speech_synthesis_task and the branch on
\* the status; after the loop the timed-out exception
WaitTest ==
    /\ wt.pc = "test"
    /\ wt' = IF wt.now < wt.end_time THEN Polled
             ELSE [wt EXCEPT !.pc = "done", !.result = "timedout"]
    /\ UNCHANGED job
    /\ UNCHANGED <<pipeVars, splitVars, buildVars, renameVars>>

\* time.sleep(5), and the time the round took beyond it
WaitSleep ==
    /\ wt.pc = "sleep"
    /\ \E d \in 0..MaxLatency :
         wt' = [wt EXCEPT !.pc = "test", !.now = @ + PollInterval + d]
    /\ UNCHANGED job
    /\ UNCHANGED <<pipeVars, splitVars, buildVars, renameVars>>

NextWait ==
    \/ WaitTest
    \/ WaitSleep
    \/ JobProgress

SpecWait == InitWait /\ [][NextWait]_vars

----------------------------------------------------------------------------
(* codebuild_invoker: one invocation of the handler, and the builds that    *)
(* CodeBuild runs for it.  A build's id is its position in builds           *)

TerminalStatuses == {"SUCCEEDED", "FAILED", "STOPPED"}

InitBuild ==
    /\ PipeInit
    /\ clock = Epoch
    /\ maxChars = MAX_CHARS
    /\ SplitIdle
    /\ WaitIdle
    /\ BuildIdle
    /\ RenameIdle

\* a started build comes to its end
BuildEnds ==
    /\ \E b \in 1..Len(builds), status \in TerminalStatuses :
        /\ builds[b] = "IN_PROGRESS"
        /\ builds' = [builds EXCEPT ![b] = status]
    /\ UNCHANGED bld
    /\ UNCHANGED <<pipeVars, splitVars, waitVars, renameVars>>

\* a handler that answers a rejected first start_build as it answers a
\* rejected resubmission: the error is logged and the loop is entered
FirstStartLogged(f) == [f EXCEPT !.pc = "backoff", !.starts = 1, !.rejected = 1]

\* the except clause of the first start_build: the 500 response
FirstStartRejected(f) ==
    [f EXCEPT !.pc = "done", !.ret = "500", !.body = "start-failed", !.starts = 1,
              !.rejected = 1]

\* From the event to the first monitor_build call.  Inputs: hasProject whether
\* the event or the environment names a project, startOk whether start_build
\* is accepted.  project records hasProject.
BuildInvoke ==
    /\ bld.pc = "idle"
    /\ \E hasProject \in BOOLEAN, startOk \in BOOLEAN :
       IF ~hasProject
       THEN /\ startOk
            /\ bld' = [bld EXCEPT !.pc = "done", !.ret = "400", !.body = "no-project",
                                  !.project = "missing"]
            /\ UNCHANGED builds
       ELSE IF ~startOk
       THEN /\ bld' = FirstStartRejected([bld EXCEPT !.project = "given"])
            /\ UNCHANGED builds
       ELSE /\ builds' = Append(builds, "IN_PROGRESS")
            /\ bld' = [bld EXCEPT !.pc = "monitor", !.attempt = 1, !.starts = 1,
                                  !.build_id = Len(builds) + 1,
                                  !.rounds = <<Len(builds) + 1>>,
                                  !.project = "given"]
    /\ UNCHANGED <<pipeVars, splitVars, waitVars, renameVars>>

\* the loop body without the retry: a failed round ends the invocation
RoundEndsNoRetry(f, ok) ==
    IF ok
    THEN [f EXCEPT !.success = TRUE, !.pc = "done", !.ret = "200",
                   !.body = "success", !.named = f.attempt]
    ELSE [f EXCEPT !.attempt = @ + 1, !.pc = "done", !.ret = "500",
                   !.body = "after-attempts"]

\* the loop body with one attempt more than max_attempts
RoundEndsExtra(f, ok) ==
    IF ok
    THEN [f EXCEPT !.success = TRUE, !.pc = "done", !.ret = "200",
                   !.body = "success", !.named = f.attempt]
    ELSE IF f.attempt <= max_attempts
    THEN [f EXCEPT !.pc = "backoff"]
    ELSE [f EXCEPT !.attempt = @ + 1, !.pc = "done", !.ret = "500",
                   !.body = "after-attempts"]

\* the loop body with attempt += 1 ahead of the break
RoundEndsCounting(f, ok) ==
    IF ok
    THEN [f EXCEPT !.success = TRUE, !.pc = "done", !.ret = "200",
                   !.body = "success", !.named = f.attempt + 1]
    ELSE IF f.attempt < max_attempts
    THEN [f EXCEPT !.pc = "backoff"]
    ELSE [f EXCEPT !.attempt = @ + 1, !.pc = "done", !.ret = "500",
                   !.body = "after-attempts"]

\* The loop body after monitor_build has returned ok: break and the 200
\* response naming the attempt; or the backoff and the resubmission when an
\* attempt is left; or, after the last attempt, the 500 response.
RoundEnds(f, ok) ==
    IF ok
    THEN [f EXCEPT !.success = TRUE, !.pc = "done", !.ret = "200",
                   !.body = "success", !.named = f.attempt]
    ELSE IF f.attempt < max_attempts
    THEN [f EXCEPT !.pc = "backoff"]
    ELSE [f EXCEPT !.attempt = @ + 1, !.pc = "done", !.ret = "500",
                   !.body = "after-attempts"]

\* One round of monitor_build's loop: time.sleep(10), batch_get_builds and the
\* test of the status.  Input: pollOk whether batch_get_builds succeeds.
MonitorPoll ==
    /\ bld.pc = "monitor"
    /\ \E pollOk \in BOOLEAN :
       LET status == builds[bld.build_id]
       IN IF ~pollOk THEN bld' = RoundEnds(bld, FALSE)
          ELSE IF status = "IN_PROGRESS" THEN UNCHANGED bld
          ELSE bld' = RoundEnds(bld, status = "SUCCEEDED")
    /\ UNCHANGED builds
    /\ UNCHANGED <<pipeVars, splitVars, waitVars, renameVars>>

\* time.sleep(30), the resubmission, attempt += 1 and the next monitor_build
\* call.  Input: startOk whether start_build is accepted; when it is not, the
\* error is logged and build_id keeps its value.
Backoff ==
    /\ bld.pc = "backoff"
    /\ \E startOk \in BOOLEAN :
       LET id == IF startOk THEN Len(builds) + 1 ELSE bld.build_id
       IN /\ builds' = IF startOk THEN Append(builds, "IN_PROGRESS") ELSE builds
          /\ bld' = [bld EXCEPT !.pc = "monitor", !.sleeps = @ + 1,
                                !.starts = @ + 1,
                                !.rejected = @ + (IF startOk THEN 0 ELSE 1),
                                !.build_id = id, !.attempt = @ + 1,
                                !.rounds = Append(@, id)]
    /\ UNCHANGED <<pipeVars, splitVars, waitVars, renameVars>>

NextBuild ==
    \/ BuildInvoke
    \/ MonitorPoll
    \/ Backoff
    \/ BuildEnds

SpecBuild == InitBuild /\ [][NextBuild]_vars

\* The handler is scheduled, and every round of monitor_build comes to see a
\* status other than IN_PROGRESS or an error of batch_get_builds.
SpecBuildLive ==
    /\ SpecBuild
    /\ WF_vars(BuildInvoke)
    /\ WF_vars(MonitorPoll)
    /\ WF_vars(Backoff)

----------------------------------------------------------------------------
(* Claims about the status record and the stages *)

ChainEdges ==
    {<<UploadCompleted, RasterizeOK>>, <<UploadCompleted, RasterizeFailed>>,
     <<RasterizeOK, ExtractOK>>, <<RasterizeOK, ExtractFailed>>,
     <<ExtractOK, VoiceIsReady>>, <<ExtractOK, SynthFailed>>}

\* C1: every change of a task's TaskStatus follows an edge of the chain
\* Upload-Completed -> rasterize outcome -> extract outcome -> synthesize
\* outcome; no edge leaves a failure status or Voice-is-Ready, so those are
\* never overwritten.  Stated for the steps of runs in which every update_item
\* so far succeeded, the plainest case of the claim.
C1_StatusFollowsChain ==
    [][\A r \in Refs :
          (/\ table[r] # NoItem
           /\ ~dbFault'[r]
           /\ table'[r].TaskStatus # table[r].TaskStatus)
              => <<table[r].TaskStatus, table'[r].TaskStatus>> \in ChainEdges]_vars

\* C2: an extract invocation that finds the task still in Upload-Completed is
\* rejected: it has processed no page image, stored no text artifact and written
\* no extract success status.  Stated for the invocations that return normally.
C2_ExtractRejectsSubmitted ==
    \A r \in Refs :
        (ext[r].pc = "done" /\ ext[r].ret = "200" /\ ext[r].seen = UploadCompleted)
            => /\ ext[r].listed = <<>>
               /\ ~ext[r].stored
               /\ <<r, "extract", ExtractOK>> \notin wlog

StagePair(stage) ==
    IF stage = "rasterize" THEN {RasterizeOK, RasterizeFailed}
    ELSE IF stage = "extract" THEN {ExtractOK, ExtractFailed}
    ELSE {VoiceIsReady, SynthFailed}

\* C3: every status value a stage writes belongs to that stage's own outcome
\* pair, on every path, the extract stage's empty listing included.
C3_OwnOutcomePair ==
    \A w \in wlog : w[3] \in StagePair(w[2])

\* the texts of the successful pages of a listing, each followed by a blank line
RECURSIVE ConcatPages(_)
ConcatPages(pages) ==
    IF pages = <<>> THEN <<>>
    ELSE ConcatPages(SubSeq(pages, 1, Len(pages) - 1))
            \o PageText(pages[Len(pages)]) \o BlankLine

Succeeded(r) ==
    LET Ok(p) == p \notin ext[r].failed IN SelectSeq(ext[r].listed, Ok)

PartialFailure(r) ==
    /\ ext[r].failed # {}
    /\ ext[r].failed # Range(ext[r].listed)

\* C4: when some but not all page images fail in the extract stage, the pages
\* after a failing one are still processed: the text artifact the run stores is
\* the concatenation of the texts of exactly the successful pages, in processing
\* order, each followed by the blank-line separator, and the status the run
\* writes after storing it is the extract success status (the failure status
\* follows only if that write itself raises).
C4_PartialExtractionSucceeds ==
    \A r \in Refs :
        (PartialFailure(r) /\ ext[r].stored)
            => /\ textObj[r] = ConcatPages(Succeeded(r))
               /\ ext[r].pc = "done" => <<r, "extract", ExtractOK>> \in wlog
               /\ ext[r].ret = "200"
                    => /\ <<r, "extract", ExtractFailed>> \notin wlog
                       /\ <<r, "extract", ExtractNoImages>> \notin wlog

\* C4 witness: three images listed, the second fails, the run ended with 200
C4_Witness ==
    \E r \in Refs :
        /\ ext[r].pc = "done"
        /\ ext[r].ret = "200"
        /\ Len(ext[r].listed) = 3
        /\ ext[r].failed = {ext[r].listed[2]}
        /\ Len(Split(textObj[r])) = 2

\* C5: when page images are found but extraction fails for every one of them,
\* the extract stage writes its failure status and not its success status.
\* Stated for the runs in which every update_item succeeded.
C5_AllPagesFailedIsFailure ==
    \A r \in Refs :
        (ext[r].listed # <<>> /\ ext[r].failed = Range(ext[r].listed) /\ ~dbFault[r])
            => /\ <<r, "extract", ExtractOK>> \notin wlog
               /\ ext[r].pc = "done" => <<r, "extract", ExtractFailed>> \in wlog

\* C6: a rasterize run that stores no page image writes the failure status,
\* never the success status, and publishes no hand-off notification.
C6_NoImageIsRasterizeFailure ==
    \A r \in Refs :
        (ras[r].pc = "done" /\ ras[r].ret # "raised" /\ ras[r].uploaded = <<>>)
            => /\ <<r, "rasterize", RasterizeFailed>> \in wlog
               /\ <<r, "rasterize", RasterizeOK>> \notin wlog
               /\ ~ras[r].published

\* the page numbers whose texts the artifact holds, in the artifact's order
ArtifactPages(text) ==
    LET words == Split(text) IN [k \in 1..Len(words) |-> Head(words[k]) - 96]

\* C7: the extracted-text artifact holds the per-page texts in ascending
\* numeric page-number order, for every page range.
C7_TextInPageNumberOrder ==
    \A r \in Refs :
        ext[r].stored
            => LET pages == ArtifactPages(textObj[r])
               IN \A j, k \in 1..Len(pages) : j < k => pages[j] < pages[k]

----------------------------------------------------------------------------
(* Claims about split_text *)

\* whitespace normalization: every whitespace run becomes one space, leading
\* and trailing whitespace is removed
RECURSIVE NormalizeAcc(_, _, _)
NormalizeAcc(t, out, gap) ==
    IF t = <<>> THEN out
    ELSE IF Head(t) \in Whitespace THEN NormalizeAcc(Tail(t), out, out # <<>>)
    ELSE NormalizeAcc(Tail(t), (IF gap THEN out \o Space ELSE out) \o <<Head(t)>>, FALSE)

Normalize(t) == NormalizeAcc(t, <<>>, FALSE)

\* the length of the longest run of non-whitespace characters
RECURSIVE LongestRun(_, _, _)
LongestRun(t, cur, best) ==
    IF t = <<>> THEN (IF cur > best THEN cur ELSE best)
    ELSE IF Head(t) \in Whitespace
         THEN LongestRun(Tail(t), 0, IF cur > best THEN cur ELSE best)
         ELSE LongestRun(Tail(t), cur + 1, best)

LongestWord(t) == LongestRun(t, 0, 0)

\* the words of all chunks, in chunk order
RECURSIVE ChunkWords(_)
ChunkWords(chunks) ==
    IF chunks = <<>> THEN <<>>
    ELSE Split(Head(chunks)) \o ChunkWords(Tail(chunks))

\* C8: for a limit that is at least the length of the longest word, joining the
\* chunks of split_text with single spaces gives the whitespace-normalized
\* text, and every chunk has length at most the limit.
C8_RoundTrip ==
    (stDone /\ stLimit >= LongestWord(stText))
        => /\ JoinSp(stChunks) = Normalize(stText)
           /\ \A k \in 1..Len(stChunks) : Len(stChunks[k]) <= stLimit

\* C8 witness: a text with extra whitespace, split into at least two chunks
C8_Witness ==
    /\ stDone
    /\ stLimit >= LongestWord(stText)
    /\ Len(stChunks) >= 2
    /\ Len(Normalize(stText)) < Len(stText)
    /\ \E k \in 1..Len(stChunks) : Len(Split(stChunks[k])) >= 2

\* C9: every chunk split_text returns is a non-empty string, for every text and
\* limit, also when a word (the first included) is longer than the limit.
C9_ChunksNonEmpty ==
    stDone => \A k \in 1..Len(stChunks) : stChunks[k] # <<>>

----------------------------------------------------------------------------
(* Claims about wait_for_polly_task *)

\* C11: a call whose polls never observe 'completed' or 'failed' ends with the
\* timed-out outcome, which is not the failed outcome; no poll is issued at or
\* after the deadline of WaitDeadline seconds; two polls are at least
\* PollInterval seconds apart, so a call issues at most WaitDeadline \div
\* PollInterval polls.
C11_TimesOutAtDeadline ==
    /\ wt.lastPoll < wt.end_time
    /\ wt.polls > 1 => wt.minGap >= PollInterval
    /\ wt.polls <= WaitDeadline \div PollInterval
    /\ (wt.pc = "done" /\ wt.terminalPolls = 0) =>
            (wt.result = "timedout" /\ wt.result # "failed")

C11_Witness ==
    /\ wt.pc = "done"
    /\ wt.result = "timedout"
    /\ wt.polls = WaitDeadline \div PollInterval
    /\ wt.minGap = PollInterval

\* the part of a URI after its last "/"
IsFileNameOf(name, uri) ==
    /\ \A k \in 1..Len(name) : name[k] # Slash
    /\ \E k \in 0..Len(uri) :
        /\ name = SubSeq(uri, k + 1, Len(uri))
        /\ k = 0 \/ uri[k] = Slash

\* C12: the call returns the file name of the task's output exactly when a poll
\* issued before the deadline observes 'completed' and raises the failure
\* exactly when such a poll observes 'failed'; the first poll that observes one
\* of the two ends the call, no poll follows it, and no step of the call
\* changes the task.
C12_FirstTerminalObservationDecides ==
    /\ [](/\ wt.pc = "done" =>
                /\ wt.result = "returned" <=> wt.lastObs = "completed"
                /\ wt.result = "failed" <=> wt.lastObs = "failed"
                /\ wt.result = "returned" => IsFileNameOf(wt.value, job.uri)
          /\ wt.lastObs \in {"completed", "failed"} =>
                /\ wt.lastPoll < wt.end_time
                /\ wt.pc = "done"
          /\ wt.terminalPolls <= 1)
    /\ [][/\ wt' # wt => job' = job
          /\ wt.pc = "done" => wt' = wt]_vars

C12_Witness ==
    /\ wt.pc = "done"
    /\ wt.result = "returned"
    /\ wt.polls > 1
    /\ wt.value # <<>>
    /\ wt.value # job.uri

----------------------------------------------------------------------------
(* Claims about codebuild_invoker *)

Distinct(seq) == \A i, j \in 1..Len(seq) : i # j => seq[i] # seq[j]

\* C13: an invocation that monitored a build and saw no round succeed has made
\* exactly max_attempts (3) start_build calls and max_attempts monitor_build
\* calls and answers 500; when every start_build was accepted the monitored
\* builds are max_attempts different builds.
C13_ThreeFailedAttempts ==
    (bld.pc = "done" /\ bld.rounds # <<>> /\ ~bld.success) =>
        /\ bld.starts = max_attempts
        /\ Len(bld.rounds) = max_attempts
        /\ bld.ret = "500"
        /\ bld.rejected = 0 => Distinct(bld.rounds)

C13_Witness ==
    /\ bld.pc = "done"
    /\ bld.ret = "500"
    /\ bld.rejected = 0
    /\ Len(bld.rounds) = max_attempts
    /\ \A k \in 1..Len(bld.rounds) : builds[bld.rounds[k]] \in {"FAILED", "STOPPED"}

\* C14: within one invocation monitor_build is never called twice with the
\* same build id, also when a resubmission is rejected.
C14_FreshBuildEachAttempt == Distinct(bld.rounds)

\* C15: the 200 response is given at the first successful round k, names
\* attempt k and status SUCCESS, and by then the handler has made k start_build
\* calls and k - 1 backoff waits; the response 'after 3 attempts' is given only
\* after max_attempts rounds none of which succeeded; once the response is
\* given the handler starts, polls and waits no more.
C15_SuccessShortCircuits ==
    /\ [](/\ bld.ret = "200" =>
                /\ bld.success /\ bld.body = "success"
                /\ bld.named = Len(bld.rounds)
                /\ bld.named \in 1..max_attempts
                /\ bld.starts = bld.named
                /\ bld.sleeps = bld.named - 1
                /\ builds[bld.rounds[bld.named]] = "SUCCEEDED"
          /\ bld.success => bld.ret = "200"
          /\ bld.body = "after-attempts" =>
                /\ Len(bld.rounds) = max_attempts
                /\ ~bld.success)
    /\ [][bld.pc = "done" => bld' = bld]_vars

C15_Witness ==
    /\ bld.ret = "200"
    /\ bld.named = 2
    /\ builds[1] = "FAILED"

\* C16: when every round of monitor_build comes to see a status other than
\* IN_PROGRESS or a poll error, the invocation ends, after at most max_attempts
\* (3) monitoring rounds and max_attempts - 1 (2) backoff waits, with a 200 or
\* 500 response.  The one other response is the 400 of an invocation that names
\* no project, which starts and monitors nothing.
C16_TerminatesWithinAttempts ==
    /\ <>(bld.pc = "done")
    /\ [](/\ Len(bld.rounds) <= max_attempts
          /\ bld.sleeps <= max_attempts - 1
          /\ bld.pc = "done" =>
                \/ bld.ret \in {"200", "500"}
                \/ bld.ret = "400" /\ bld.body = "no-project" /\ bld.rounds = <<>>)

C16_Witness ==
    /\ bld.pc = "done"
    /\ Len(bld.rounds) = max_attempts
    /\ bld.sleeps = max_attempts - 1
    /\ bld.ret = "200"

----------------------------------------------------------------------------
(* Claims about the audio artifacts of polly_invoker *)

\* name is the output of a completed task that was submitted for chunk k
\* (0-based) of the handler's chunk list
OutputOfChunk(r, name, k) ==
    /\ name[1] = k
    /\ name[2] \in 1..Len(polly[r])
    /\ polly[r][name[2]].chunk = k
    /\ polly[r][name[2]].text = syn[r].chunks[k + 1]
    /\ polly[r][name[2]].status = "completed"

\* the manifest that exists under its own key or, once renamed, under Audio.mp3
Manifests(r) ==
    {b \in {manifest[r], audioMp3[r]} : b.kind = "manifest"}

\* C17: a manifest that combine_audio_files has written lists exactly as many
\* names as the text has chunks, more than one, and its i-th line (0-based) is
\* the output of the task submitted for chunk i.
C17_ManifestInChunkOrder ==
    \A r \in Refs : \A b \in Manifests(r) :
        /\ Len(b.files) = Len(syn[r].chunks)
        /\ Len(b.files) > 1
        /\ \A k \in 0..(Len(b.files) - 1) : OutputOfChunk(r, b.files[k + 1], k)

C17_Witness ==
    \E r \in Refs :
        /\ manifest[r].kind = "manifest"
        /\ Len(manifest[r].files) = 3
        /\ Len(syn[r].chunks) = 3

\* C18: when the text is one chunk and its task completes, then once the stage
\* has finished with success download/<ref>/Audio.mp3 holds the body of the
\* task's output object and that object's key no longer exists.
C18_SingleChunkMoved ==
    \A r \in Refs :
        (syn[r].pc = "done" /\ syn[r].ret = "200" /\ Len(syn[r].chunks) = 1) =>
            /\ Len(syn[r].audio_files) = 1
            /\ OutputOfChunk(r, syn[r].audio_files[1], 0)
            /\ audioMp3[r] = AudioBody(syn[r].audio_files[1])
            /\ syn[r].audio_files[1] \notin chunkOut[r]

C18_Witness ==
    \E r \in Refs :
        /\ syn[r].pc = "done" /\ syn[r].ret = "200"
        /\ Len(syn[r].chunks) = 1
        /\ audioMp3[r].kind = "audio"
        /\ chunkOut[r] = {}

\* C19: when the text is N > 1 chunks and all are synthesized, then once the
\* stage has finished with success Audio.mp3 holds the combination of the N
\* chunk artifacts in index order and the N chunk artifacts are deleted.
C19_ManyChunksMoved ==
    \A r \in Refs :
        (syn[r].pc = "done" /\ syn[r].ret = "200" /\ Len(syn[r].chunks) > 1) =>
            /\ audioMp3[r].files = syn[r].audio_files
            /\ \A k \in 1..Len(syn[r].audio_files) :
                    syn[r].audio_files[k] \notin chunkOut[r]

\* C20: a second run of rename_to_audio_mp3 with the arguments of a run that
\* succeeded ends without an error unless S3 fails, and leaves Audio.mp3 with
\* the body it had.
C20_RenameIdempotent ==
    \A r \in Refs :
        syn[r].again \in {"ok", "raised"} =>
            /\ syn[r].again = "ok"
            /\ audioMp3[r] = syn[r].first

----------------------------------------------------------------------------
(* Claims about faults and what the client sees *)

\* C21: every invocation of the rasterize, extract and synthesize handlers
\* ends with a response, never with an exception that reaches its invoker, and
\* an invocation that met a fault with the reference key known has written its
\* stage's failure status.
C21_NoExceptionEscapes ==
    \A r \in Refs :
        /\ ras[r].ret # "raised"
        /\ ext[r].ret # "raised"
        /\ syn[r].ret # "raised"
        /\ ras[r].ret = "500" => <<r, "rasterize", RasterizeFailed>> \in wlog
        /\ syn[r].ret = "500" => <<r, "synthesize", SynthFailed>> \in wlog

FailureStatuses == {RasterizeFailed, ExtractFailed, SynthFailed}

\* C22: a task whose TaskStatus is a failure status written by a stage is
\* reported by get_user_requests with a TaskStatus other than the one it
\* reports for a task that is still being processed.
C22_FailureIsReported ==
    \A r \in DOMAIN get_user_requests(table) :
        table[r].TaskStatus \in FailureStatuses =>
            get_user_requests(table)[r].TaskStatus
                # get_user_requests(SetStatus(table, r, UploadCompleted))[r].TaskStatus

\* the tasks Polly was given for r whose status is one of statuses
TasksWith(r, statuses) ==
    {t \in 1..Len(polly[r]) : polly[r][t].status \in statuses}

\* C23: when the task of one chunk fails or times out while the task of another
\* chunk completes, the remaining chunks are still submitted and the stage does
\* not end with its failure status.
C23_PartialChunkFailureContinues ==
    \A r \in Refs :
        (/\ syn[r].pc = "done"
         /\ TasksWith(r, {"completed"}) # {}
         /\ TasksWith(r, {"failed", "timedout"}) # {}) =>
            /\ \A k \in 0..(Len(syn[r].chunks) - 1) :
                    \E t \in 1..Len(polly[r]) : polly[r][t].chunk = k
            /\ syn[r].ret = "200"
            /\ <<r, "synthesize", SynthFailed>> \notin wlog

\* the object the handler's rename_to_audio_mp3 call takes as its source is
\* still there
SourceLeft(r) ==
    IF Len(syn[r].audio_files) > 1 THEN manifest[r] # NoAudio
    ELSE /\ Len(syn[r].audio_files) = 1
         /\ syn[r].audio_files[1] \in chunkOut[r]

\* C24: when the copy to Audio.mp3 succeeded and the delete of the intermediate
\* object failed, the stage still writes 'Voice-is-Ready' and returns its
\* success response.
C24_DeleteFailureOnlyLogged ==
    \A r \in Refs :
        (syn[r].pc = "done" /\ audioMp3[r] # NoAudio /\ SourceLeft(r)) =>
            /\ syn[r].ret = "200"
            /\ <<r, "synthesize", VoiceIsReady>> \in wlog

\* C25: an invocation that finds no task record, or a language that in lower
\* case is neither 'english' nor 'arabic', submits no synthesis task and creates
\* no audio artifact; it writes the status 'failed', with one status write, and
\* returns; nothing is submitted or triggered again.
C25_InputFaultFailsAtOnce ==
    \A r \in Refs :
        (syn[r].pc = "done" /\ syn[r].language \notin {"english", "arabic"}) =>
            /\ polly[r] = <<>>
            /\ chunkOut[r] = {} /\ manifest[r] = NoAudio /\ audioMp3[r] = NoAudio
            /\ syn[r].ret = "500"
            /\ syn[r].writes = 1
            /\ {w \in wlog : w[1] = r /\ w[2] = "synthesize"}
                    = {<<r, "synthesize", SynthFailed>>}
            /\ s3ev[r] = 0

C25_Witness ==
    \E r \in Refs :
        /\ syn[r].pc = "done"
        /\ syn[r].language = "french"
        /\ syn[r].chunks # <<>>
        /\ table[r].TaskStatus = SynthFailed

\* C26: when a rasterize invocation has returned and the task's status is the
\* rasterize success status it wrote, the hand-off notification for the task
\* has been published.
C26_SuccessIsHandedOff ==
    \A r \in Refs :
        (/\ ras[r].pc = "done"
         /\ <<r, "rasterize", RasterizeOK>> \in wlog
         /\ table[r].TaskStatus = RasterizeOK) => ras[r].published

----------------------------------------------------------------------------
(* Claims about the task record *)

FrameAttributes ==
    {"reference_key", "S3Path", "Language", "StartPage", "EndPage", "Username",
     "FileName", "UploadDateTime", "ExpiresAt"}

\* C27: a step of a stage changes nothing but TaskStatus in a task record that
\* the upload handler has created: reference_key, S3Path, Language, StartPage,
\* EndPage, Username, FileName, UploadDateTime and ExpiresAt keep their values;
\* and the record of another task is not written at all.
C27_StatusWriteFrame ==
    [][/\ \A r \in Refs :
            (table[r] # NoItem /\ table[r].reference_key = r) =>
                \A a \in FrameAttributes : table'[r][a] = table[r][a]
       /\ table'[OtherTask] = table[OtherTask]]_vars

C27_Witness ==
    \E r \in Refs :
        /\ table[r].TaskStatus = VoiceIsReady
        /\ table[r].reference_key = r
        /\ table[r].Language = "English"
        /\ {w[2] : w \in wlog} = {"rasterize", "extract", "synthesize"}

\* the time of ExpiresAt, in whole seconds, is after the instant t
Later(expires, t) == expires > t.sec \/ (expires = t.sec /\ 0 > t.micro)

\* C28: a record the upload handler has created has TaskStatus
\* 'Upload-Completed' and an ExpiresAt that is its UploadDateTime plus one week
\* cut to whole seconds, which is strictly later than UploadDateTime.
C28_ExpiresAfterCreation ==
    \A r \in Refs :
        table[r] # NoItem =>
            /\ table[r].TaskStatus = UploadCompleted
            /\ table[r].UploadDateTime = clock
            /\ table[r].ExpiresAt = table[r].UploadDateTime.sec + WeekSeconds
            /\ Later(table[r].ExpiresAt, table[r].UploadDateTime)

C28_Witness ==
    \E r \in Refs :
        /\ table[r].TaskStatus = UploadCompleted
        /\ table[r].UploadDateTime.sec > 0
        /\ table[r].UploadDateTime.micro = MicrosPerSecond - 1

----------------------------------------------------------------------------
(* Claims about concurrent and repeated invocations *)

\* every stage has run for r, succeeded, and returned; no update_item failed
AllStagesSucceeded(r) ==
    /\ ras[r].pc = "done" /\ ras[r].ret = "200"
    /\ ext[r].pc = "done" /\ ext[r].ret = "200"
    /\ syn[r].pc = "done" /\ syn[r].ret = "200"
    /\ {<<r, "rasterize", RasterizeOK>>, <<r, "extract", ExtractOK>>,
        <<r, "synthesize", VoiceIsReady>>} \subseteq wlog
    /\ ~dbFault[r]

\* C29: when all three stages have succeeded for a task and every invocation
\* has returned, the task's TaskStatus is 'Voice-is-Ready', whatever the order
\* of the extract stage's status write and the synthesize stage's.
C29_FinalStatusIsReady ==
    \A r \in Refs : AllStagesSucceeded(r) => table[r].TaskStatus = VoiceIsReady

\* C30: a task whose TaskStatus is 'Voice-is-Ready' and whose Audio.mp3 is
\* present keeps both when the trigger of the synthesize stage is delivered
\* again: no step of the second invocation sets the status to 'failed', and
\* when it has returned Audio.mp3 is present as after the first.
C30_DuplicateDeliveryHarmless ==
    /\ [][\A r \in Refs :
            (table[r].TaskStatus = VoiceIsReady /\ audioMp3[r] # NoAudio)
                => table'[r].TaskStatus # SynthFailed]_vars
    /\ [](\A r \in Refs :
            (/\ syn[r].again = "redelivered"
             /\ syn[r].pc = "done"
             /\ syn[r].first # NoAudio)
                => audioMp3[r] # NoAudio)

----------------------------------------------------------------------------
(* Claims about the order of the synthesize stage's steps *)

\* C31: within one invocation the synthesis jobs are submitted in chunk order,
\* each chunk at most once, and a job is submitted only when the job before it
\* was observed completed; after the first job that fails or times out no
\* further job is submitted, no Audio.mp3 is created, and the handler has
\* called the status write with 'failed' and not with 'Voice-is-Ready'.
C31_ChunksOneAfterAnother ==
    \A r \in Refs :
        /\ \A t \in 1..Len(polly[r]) :
              /\ polly[r][t].chunk = t - 1
              /\ t < Len(polly[r]) => polly[r][t].status = "completed"
        /\ TasksWith(r, {"failed", "timedout"}) # {} =>
              /\ syn[r].pc = "done"
              /\ syn[r].ret = "500"
              /\ audioMp3[r] = NoAudio
              /\ manifest[r] = NoAudio
              /\ <<r, "synthesize", SynthFailed>> \in wlog
              /\ <<r, "synthesize", VoiceIsReady>> \notin wlog

C31_Witness ==
    \E r \in Refs :
        /\ Len(syn[r].chunks) = 3
        /\ Len(polly[r]) = 2
        /\ polly[r][1].status = "completed"
        /\ polly[r][2].status = "timedout"
        /\ syn[r].pc = "done"

\* C32: rename_to_audio_mp3 issues the delete of the source object only after
\* the copy to Audio.mp3 has succeeded; when the copy fails the source object
\* is as it was, no delete has been issued and the call has raised; and in
\* every state of the call the content the source held is under the source key
\* or under Audio.mp3.
C32_DeleteOnlyAfterCopy ==
    /\ rn.deletes > 0 => rn.copied
    /\ (rn.pc = "done" /\ ~rn.copied) =>
          /\ rn.src = rn.content
          /\ rn.dst = rn.old
          /\ rn.deletes = 0
          /\ rn.raised
    /\ rn.content # NoAudio => (rn.src = rn.content \/ rn.dst = rn.content)

C32_Witness ==
    /\ rn.pc = "done"
    /\ rn.content.kind = "manifest"
    /\ rn.old.kind = "audio"
    /\ ~rn.copied
    /\ rn.raised

\* C33: in every state of the pipeline, a task whose TaskStatus is
\* 'Voice-is-Ready' has its download/<ref>/Audio.mp3 object, the key
\* generate_presigned_url signs: the status is written only after the copy to
\* that key succeeded.
C33_ReadyHasAudio ==
    \A r \in Refs : table[r].TaskStatus = VoiceIsReady => audioMp3[r] # NoAudio

C33_Witness ==
    \E r \in Refs :
        /\ table[r].TaskStatus = VoiceIsReady
        /\ audioMp3[r].kind = "audio"
        /\ chunkOut[r] = {}
        /\ syn[r].ret = "200"

----------------------------------------------------------------------------
(* Further claims about codebuild_invoker *)

\* the builds the invocation has started that have not come to their end
InProgress == {b \in 1..Len(builds) : builds[b] = "IN_PROGRESS"}

\* C34: at most one of the builds an invocation has started is IN_PROGRESS at
\* any time, because a build is started only after the build monitored before
\* it has reached a terminal status; also when a status poll raises an error.
C34_OneBuildAtATime ==
    /\ [](Cardinality(InProgress) <= 1)
    /\ [][Len(builds') > Len(builds) => InProgress = {}]_vars

\* C35: an invocation whose first start_build is rejected answers 500 at once:
\* it has made that one submission, no status poll and no backoff wait, and
\* takes no further step; an invocation given no project name answers 400 and
\* has made no submission.
C35_RejectedAtOnce ==
    /\ []((bld.rejected > 0 /\ builds = <<>>) =>
             /\ bld.pc = "done"
             /\ bld.ret = "500"
             /\ bld.starts = 1
             /\ bld.rounds = <<>>
             /\ bld.sleeps = 0)
    /\ [](bld.project = "missing" =>
             /\ bld.pc = "done"
             /\ bld.ret = "400"
             /\ bld.starts = 0
             /\ builds = <<>>)
    /\ [][(bld.rejected > 0 /\ builds = <<>>) =>
             (bld' = bld /\ builds' = builds)]_vars

C35_Witness ==
    /\ bld.pc = "done"
    /\ bld.ret = "500"
    /\ bld.body = "start-failed"
    /\ bld.project = "given"
    /\ bld.rejected = 1

----------------------------------------------------------------------------
(* Further claims about split_text *)

\* C36: split_text packs greedily: of two consecutive non-empty chunks the
\* first could not have taken the first word of the second, i.e. its length
\* plus one space plus the length of that word is more than the limit.
C36_GreedyPacking ==
    stDone =>
        \A k \in 1..(Len(stChunks) - 1) :
            (stChunks[k] # <<>> /\ stChunks[k + 1] # <<>>) =>
                Len(stChunks[k]) + 1 + Len(Split(stChunks[k + 1])[1]) > stLimit

C36_Witness ==
    /\ stDone
    /\ Len(stChunks) = 2
    /\ Len(Split(stChunks[1])) = 2
    /\ Len(stChunks[1]) = stLimit
    /\ stChunks[2] # <<>>

\* C37: when the text artifact has no words (it is empty or whitespace only),
\* split_text returns the empty sequence, the synthesize stage submits no
\* synthesis job and creates no Audio.mp3, and the invocation ends with the
\* status write 'failed' and statusCode 500.
C37_NoWordsFails ==
    \A r \in Refs :
        Split(textObj[r]) = <<>> =>
            /\ split_text(textObj[r], maxChars) = <<>>
            /\ syn[r].chunks = <<>>
            /\ polly[r] = <<>>
            /\ audioMp3[r] = NoAudio
            /\ syn[r].pc = "done" =>
                  /\ syn[r].ret = "500"
                  /\ <<r, "synthesize", SynthFailed>> \in wlog
                  /\ <<r, "synthesize", VoiceIsReady>> \notin wlog

C37_Witness ==
    \E r \in Refs :
        /\ textObj[r] # <<>>
        /\ Split(textObj[r]) = <<>>
        /\ syn[r].language = "english"
        /\ syn[r].pc = "done"
        /\ syn[r].ret = "500"

----------------------------------------------------------------------------
(* Further claims about upload_execution *)

\* C38: the record of a task is created only after its document has been
\* stored: the S3Path of every record names an object that was put under
\* upload/<ref>/; and when the upload handler has answered without the
\* document stored (decoding or put_object failed), there is no record and
\* the answer is statusCode 500.
C38_RecordAfterDocument ==
    \A r \in Refs :
        /\ (table[r] # NoItem /\ table[r].S3Path # <<>>) =>
              /\ Len(table[r].S3Path) = 3
              /\ table[r].S3Path[1] = "upload"
              /\ table[r].S3Path[2] = r
              /\ table[r].S3Path[3] \in uploads[r]
        /\ (up[r] # "none" /\ uploads[r] = {}) =>
              /\ table[r] = NoItem
              /\ up[r] = "500"

C38_Witness ==
    \E r \in Refs :
        /\ up[r] = "200"
        /\ table[r].S3Path = <<"upload", r, "doc.pdf">>
        /\ uploads[r] = {"doc.pdf"}
        /\ ras[r].pc = "idle"

====
